---------------------------- MODULE Spec2Model ----------------------------
(***************************************************************************)
(* Model of CallbacksLIB (src/callbacks.hpp): the class Callbacks<R,Args>  *)
(* and its two subclasses CallbacksReturningABoolean and                   *)
(* CallbacksReturningAContainer.                                           *)
(*                                                                         *)
(* The registry is the pair (m_callbacks, m_lastAssignedCallback_ID).      *)
(* Spec     : one thread calling the public functions, one call per step.  *)
(* SpecWrap : one thread calling register_callback, deregister_callback    *)
(*            and deregister_all_callbacks often enough for the id counter *)
(*            to go around, on a registry whose counter started at zero.   *)
(* SpecConc : NThreads threads calling register_callback, one statement    *)
(*            of register_callback per step.                               *)
(***************************************************************************)
EXTENDS Integers, Sequences, FiniteSets, TLC

(***************************************************************************)
(* Bounds of the model.                                                    *)
(***************************************************************************)
\* width of int in the model (the program's int has 32 bits)
IntBits == 3
\* register_callback is not called with more than MaxCallbacks entries stored
MaxCallbacks == 2
\* number of register_callback calls made on one registry in Spec
MaxRegistrations == 3
\* threads of SpecConc and the register_callback calls each of them makes
NThreads == 2
CallsPerThread == 1

RECURSIVE Pow2(_)
Pow2(n) == IF n = 0 THEN 1 ELSE 2 * Pow2(n - 1)

IntMin == -Pow2(IntBits - 1)
IntMax == Pow2(IntBits - 1) - 1
\* the values of an int
IntRange == IntMin..IntMax

\* registrations that take the id counter once around all the values of an int
\* and one further
WrapRegistrations == Pow2(IntBits) + 1

Threads == 1..NThreads

(***************************************************************************)
(* Return types and callables.                                             *)
(*                                                                         *)
(* CallbackReturnType is a template parameter.  Three instantiations are   *)
(* modelled: void (Callbacks), bool (CallbacksReturningABoolean) and a     *)
(* container (CallbacksReturningAContainer).  A container value is its     *)
(* elements and its capacity, as of a std::vector or std::string: empty()  *)
(* looks at the elements only, and a moved or copied-from-temporary value  *)
(* keeps the capacity the callback gave it.                                *)
(***************************************************************************)
ReturnTypes == {"void", "bool", "container"}

Container == {c \in [elems : {<<>>, <<"X">>, <<"Y">>}, capacity : 0..1] :
                 Len(c.elems) <= c.capacity}

\* CallbackReturnType callbackReturn;  (default construction)
DefaultConstructed == [elems |-> <<>>, capacity |-> 0]

\* callbackReturn.empty()
empty(c) == Len(c.elems) = 0

\* the values of CallbackReturnType
Values(R) == CASE R = "void" -> {"void"}
               [] R = "bool" -> BOOLEAN
               [] R = "container" -> Container

\* A std::function<R(Args...)>: the tag it appends to the caller's log when it
\* is called, what it returns, and whether it throws instead of returning.
Callables(R, tag) == [tag : {tag}, ret : Values(R), throws : {FALSE}]

\* the value a callable that throws is given as ret: it is never returned
NoValue(R) == CASE R = "void" -> "void"
                [] R = "bool" -> FALSE
                [] R = "container" -> DefaultConstructed

\* the callables that throw when called
ThrowingCallables(R, tag) == [tag : {tag}, ret : {NoValue(R)}, throws : {TRUE}]

VARIABLES
    R,                          \* the instantiation of CallbackReturnType
    m_callbacks,                \* std::vector<CallbackType>
    m_lastAssignedCallback_ID,  \* std::atomic<int>
    call,                       \* the last call made on the registry
    ret,                        \* what the last call returned
    log,                        \* tags of the callables the last invocation called, in order
    issued,                     \* ids returned by register_callback, in order
    stale,                      \* ids for which deregister_callback returned true
    cleared,                    \* deregister_all_callbacks ran and no register_callback since
    pc,                         \* SpecConc: statement each thread is at
    newCallback,                \* SpecConc: each thread's local newCallback.m_id
    slot,                       \* SpecConc: end position each thread's push_back read
    storage,                    \* SpecConc: the vector's buffer, m_callbacks being its part before the end
    done,                       \* SpecConc: ids each thread's calls returned, in order
    threw,                      \* an exception left the last call
    tpc,                        \* SpecTraverse: where the invokeCallbacks in flight is
    it,                         \* SpecTraverse: position the range-for's iterator is at
    itEnd,                      \* SpecTraverse: position of the end iterator the range-for took
    slots,                      \* SpecTraverse: the buffer the two iterators point into
    dangling,                   \* SpecTraverse: that buffer has been freed by a reallocation
    began,                      \* SpecTraverse: tags of the entries stored when the traversal began
    pastEnd,                    \* SpecTraverse: the traversal read a position past the vector's end
    during,                     \* SpecTraverse: calls that changed the vector during the traversal,
                                \* each with the number of calls the traversal had made
    visited                     \* SpecTraverse: tags of the callables the traversal called, in order

vars == <<R, m_callbacks, m_lastAssignedCallback_ID, call, ret, log,
          issued, stale, cleared, pc, newCallback, slot, storage, done,
          threw, tpc, it, itEnd, slots, dangling, began, pastEnd, during, visited>>

concVars == <<pc, newCallback, slot, storage, done>>

travVars == <<tpc, it, itEnd, slots, dangling, began, pastEnd, during, visited>>


(***************************************************************************)
(* The statements of the member functions.                                 *)
(***************************************************************************)
\* int m_id = 0;
DefaultId == 0

\* ++m_lastAssignedCallback_ID on a std::atomic<int>: two's complement, wraps
PreIncrement(x) == IF x = IntMax THEN IntMin ELSE x + 1

\* CallbackType newCallback; newCallback.m_id = id; newCallback.m_callback = callback;
NewCallback(id, callback) == [m_id |-> id, m_callback |-> callback]

\* m_callbacks.push_back(newCallback)
\* (as changed: the entry is inserted at the front)
push_front(v, e) == <<e>> \o v

push_back(v, e) == Append(v, e)

\* m_callbacks.erase(m_callbacks.begin() + i), i counted from 1 here
\* (as changed: the last element is removed whatever the position)
erase_last(v, i) == SubSeq(v, 1, Len(v) - 1)

erase(v, i) == SubSeq(v, 1, i - 1) \o SubSeq(v, i + 1, Len(v))

\* m_callbacks.clear()
\* (as changed: only the last entry is removed, as by pop_back)
clear_pops_last(v) == IF v = <<>> THEN <<>> ELSE SubSeq(v, 1, Len(v) - 1)

clear(v) == <<>>

\* the loop of deregister_callback: the position of the first entry whose
\* m_id is callbackID, 0 when the loop ends without finding one
\* (as changed: "=" for "==" in the comparison, which holds for every
\* callbackID but 0)
RECURSIVE FindCallbackAssigns(_, _, _)
FindCallbackAssigns(v, callbackID, i) ==
    IF i > Len(v) THEN 0
    ELSE IF callbackID # 0 THEN i
    ELSE FindCallbackAssigns(v, callbackID, i + 1)

RECURSIVE FindCallback(_, _, _)
FindCallback(v, callbackID, i) ==
    IF i > Len(v) THEN 0
    ELSE IF v[i].m_id = callbackID THEN i
    ELSE FindCallback(v, callbackID, i + 1)

\* Callback::operator(): return m_callback(arguments...)
CallbackCall(callback) == callback.m_callback.ret

\* what calling an entry appends to the caller's log
CallbackTag(callback) == callback.m_callback.tag

\* Callback::operator() has no try block: what m_callback throws leaves it
CallbackThrows(callback) == callback.m_callback.throws

\* for(const auto& callback : m_callbacks) callback(arguments...);
\* (neither loop has a try block: an exception leaves the loop and the function)
\* (as changed: the loop ends at the first entry that returns true or a
\* non-empty container)
RECURSIVE InvokeAllLoopStopsOnMatch(_, _, _)
InvokeAllLoopStopsOnMatch(v, i, lg) ==
    IF i > Len(v) THEN [threw |-> FALSE, log |-> lg]
    ELSE IF CallbackThrows(v[i]) THEN [threw |-> TRUE, log |-> Append(lg, CallbackTag(v[i]))]
    ELSE IF \/ R = "bool" /\ CallbackCall(v[i])
            \/ R = "container" /\ ~empty(CallbackCall(v[i]))
         THEN [threw |-> FALSE, log |-> Append(lg, CallbackTag(v[i]))]
         ELSE InvokeAllLoopStopsOnMatch(v, i + 1, Append(lg, CallbackTag(v[i])))

\* (as changed: the call is in a try block whose handler goes on with the loop)
RECURSIVE InvokeAllLoopCatches(_, _, _)
InvokeAllLoopCatches(v, i, lg) ==
    IF i > Len(v) THEN [threw |-> FALSE, log |-> lg]
    ELSE InvokeAllLoopCatches(v, i + 1, Append(lg, CallbackTag(v[i])))

RECURSIVE InvokeAllLoop(_, _, _)
InvokeAllLoop(v, i, lg) ==
    IF i > Len(v) THEN [threw |-> FALSE, log |-> lg]
    ELSE IF CallbackThrows(v[i]) THEN [threw |-> TRUE, log |-> Append(lg, CallbackTag(v[i]))]
    ELSE InvokeAllLoop(v, i + 1, Append(lg, CallbackTag(v[i])))

\* the loop of invokeCallbacksUntilOneOfThemReturnsANonZeroValue
\* (as changed: the result is remembered and the loop goes on)
RECURSIVE NonZeroLoopNoBreak(_, _, _)
NonZeroLoopNoBreak(v, i, lg) ==
    IF i > Len(v) THEN [threw |-> FALSE, ret |-> \E k \in 1..Len(v) : CallbackCall(v[k]),
                        log |-> lg]
    ELSE IF CallbackThrows(v[i])
         THEN [threw |-> TRUE, ret |-> FALSE, log |-> Append(lg, CallbackTag(v[i]))]
    ELSE NonZeroLoopNoBreak(v, i + 1, Append(lg, CallbackTag(v[i])))

RECURSIVE NonZeroLoop(_, _, _)
NonZeroLoop(v, i, lg) ==
    IF i > Len(v) THEN [threw |-> FALSE, ret |-> FALSE, log |-> lg]
    ELSE IF CallbackThrows(v[i])
         THEN [threw |-> TRUE, ret |-> FALSE, log |-> Append(lg, CallbackTag(v[i]))]
    ELSE IF CallbackCall(v[i])
         THEN [threw |-> FALSE, ret |-> TRUE, log |-> Append(lg, CallbackTag(v[i]))]
         ELSE NonZeroLoop(v, i + 1, Append(lg, CallbackTag(v[i])))

\* the loop of invokeCallbacksUntilOneOfThemReturnsANonEmptyContainer
\* (as changed: a fresh value is returned when the loop ends)
RECURSIVE NonEmptyLoopReturnsDefault(_, _, _, _)
NonEmptyLoopReturnsDefault(v, i, callbackReturn, lg) ==
    IF i > Len(v) THEN [threw |-> FALSE, ret |-> DefaultConstructed, log |-> lg]
    ELSE IF CallbackThrows(v[i])
         THEN [threw |-> TRUE, ret |-> callbackReturn, log |-> Append(lg, CallbackTag(v[i]))]
    ELSE LET r == CallbackCall(v[i])
         IN  IF ~empty(r)
             THEN [threw |-> FALSE, ret |-> r, log |-> Append(lg, CallbackTag(v[i]))]
             ELSE NonEmptyLoopReturnsDefault(v, i + 1, r, Append(lg, CallbackTag(v[i])))

\* (as changed: a non-empty result is remembered and the loop goes on)
RECURSIVE NonEmptyLoopKeepsLast(_, _, _, _)
NonEmptyLoopKeepsLast(v, i, callbackReturn, lg) ==
    IF i > Len(v) THEN [threw |-> FALSE, ret |-> callbackReturn, log |-> lg]
    ELSE IF CallbackThrows(v[i])
         THEN [threw |-> TRUE, ret |-> callbackReturn, log |-> Append(lg, CallbackTag(v[i]))]
    ELSE LET r == CallbackCall(v[i])
         IN  NonEmptyLoopKeepsLast(v, i + 1, IF empty(r) THEN callbackReturn ELSE r,
                                   Append(lg, CallbackTag(v[i])))

RECURSIVE NonEmptyLoop(_, _, _, _)
NonEmptyLoop(v, i, callbackReturn, lg) ==
    IF i > Len(v) THEN [threw |-> FALSE, ret |-> callbackReturn, log |-> lg]
    ELSE IF CallbackThrows(v[i])
         THEN [threw |-> TRUE, ret |-> callbackReturn, log |-> Append(lg, CallbackTag(v[i]))]
    ELSE LET r == CallbackCall(v[i])
         IN  IF ~empty(r)
             THEN [threw |-> FALSE, ret |-> r, log |-> Append(lg, CallbackTag(v[i]))]
             ELSE NonEmptyLoop(v, i + 1, r, Append(lg, CallbackTag(v[i])))

\* A function with a return type that flows off its end without a return
\* statement: nothing for void, any value of the type otherwise.
FlowOffEnd(T) == Values(T)

\* what the caller has of a call: one of the values the function can return,
\* or, when an exception left the function, what it had before
Outcome(thrown, values) == IF thrown THEN {ret} ELSE values

(***************************************************************************)
(* One thread: Spec.                                                       *)
(***************************************************************************)
\* Callbacks(){} : the vector is empty; the atomic counter has no
\* initialiser, so it holds whatever the storage held.
Init ==
    /\ R \in ReturnTypes
    /\ m_callbacks = <<>>
    /\ m_lastAssignedCallback_ID \in IntRange
    /\ call = [op |-> "Callbacks", arg |-> "none"]
    /\ ret = "void"
    /\ log = <<>>
    /\ issued = <<>>
    /\ stale = {}
    /\ cleared = FALSE
    /\ pc = [t \in Threads |-> "idle"]
    /\ newCallback = [t \in Threads |-> DefaultId]
    /\ slot = [t \in Threads |-> 0]
    /\ storage = <<>>
    /\ done = [t \in Threads |-> <<>>]
    /\ threw = FALSE
    /\ tpc = "idle"
    /\ it = 0
    /\ itEnd = 0
    /\ slots = <<>>
    /\ dangling = FALSE
    /\ began = <<>>
    /\ pastEnd = FALSE
    /\ during = {}
    /\ visited = <<>>

register_callback(callback) ==
    /\ LET id == PreIncrement(m_lastAssignedCallback_ID)
           nc == NewCallback(id, callback)
       IN  /\ m_lastAssignedCallback_ID' = id
           /\ m_callbacks' = push_back(m_callbacks, nc)
           /\ ret' = nc.m_id
           /\ issued' = Append(issued, nc.m_id)
    /\ call' = [op |-> "register_callback", arg |-> callback]
    /\ log' = <<>>
    /\ threw' = FALSE
    /\ cleared' = FALSE
    /\ UNCHANGED <<R, concVars>>

deregister_callback(callbackID) ==
    /\ LET i == FindCallback(m_callbacks, callbackID, 1)
       IN  IF i # 0
           THEN /\ m_callbacks' = erase(m_callbacks, i)
                /\ ret' = TRUE
           ELSE /\ m_callbacks' = m_callbacks
                /\ ret' = FALSE
    /\ call' = [op |-> "deregister_callback", arg |-> callbackID]
    /\ log' = <<>>
    /\ threw' = FALSE
    /\ UNCHANGED <<R, m_lastAssignedCallback_ID, issued, cleared, concVars>>

deregister_all_callbacks ==
    /\ m_callbacks' = clear(m_callbacks)
    /\ ret' = "void"
    /\ call' = [op |-> "deregister_all_callbacks", arg |-> "none"]
    /\ log' = <<>>
    /\ threw' = FALSE
    /\ cleared' = TRUE
    /\ UNCHANGED <<R, m_lastAssignedCallback_ID, issued, concVars>>

\* (as changed: the entries are dropped once they have been called)
invokeCallbacksDraining ==
    /\ LET out == InvokeAllLoop(m_callbacks, 1, <<>>)
       IN  /\ log' = out.log
           /\ ret' \in Outcome(out.threw, FlowOffEnd(R))
           /\ threw' = out.threw
    /\ m_callbacks' = <<>>
    /\ call' = [op |-> "invokeCallbacks", arg |-> "none"]
    /\ UNCHANGED <<R, m_lastAssignedCallback_ID, issued, stale, cleared, concVars, travVars>>

invokeCallbacks ==
    /\ LET out == InvokeAllLoop(m_callbacks, 1, <<>>)
       IN  /\ log' = out.log
           /\ ret' \in Outcome(out.threw, FlowOffEnd(R))
           /\ threw' = out.threw
    /\ call' = [op |-> "invokeCallbacks", arg |-> "none"]
    /\ UNCHANGED <<R, m_callbacks, m_lastAssignedCallback_ID, issued, stale,
                   cleared, concVars, travVars>>

\* (as changed: the loop body is "return callback(arguments...);")
CallOperatorReturnsFirst ==
    /\ log' = IF m_callbacks = <<>> THEN <<>> ELSE <<CallbackTag(m_callbacks[1])>>
    /\ ret' \in IF m_callbacks = <<>> THEN FlowOffEnd(R)
                ELSE Outcome(CallbackThrows(m_callbacks[1]), {CallbackCall(m_callbacks[1])})
    /\ threw' = (m_callbacks # <<>> /\ CallbackThrows(m_callbacks[1]))
    /\ call' = [op |-> "operator()", arg |-> "none"]
    /\ UNCHANGED <<R, m_callbacks, m_lastAssignedCallback_ID, issued, stale,
                   cleared, concVars, travVars>>

CallOperator ==
    /\ LET out == InvokeAllLoop(m_callbacks, 1, <<>>)
       IN  /\ log' = out.log
           /\ ret' \in Outcome(out.threw, FlowOffEnd(R))
           /\ threw' = out.threw
    /\ call' = [op |-> "operator()", arg |-> "none"]
    /\ UNCHANGED <<R, m_callbacks, m_lastAssignedCallback_ID, issued, stale,
                   cleared, concVars, travVars>>

invokeCallbacksUntilOneOfThemReturnsANonZeroValue ==
    /\ R = "bool"
    /\ LET out == NonZeroLoop(m_callbacks, 1, <<>>)
       IN  /\ ret' \in Outcome(out.threw, {out.ret})
           /\ threw' = out.threw
           /\ log' = out.log
    /\ call' = [op |-> "invokeCallbacksUntilOneOfThemReturnsANonZeroValue",
                arg |-> "none"]
    /\ UNCHANGED <<R, m_callbacks, m_lastAssignedCallback_ID, issued, stale,
                   cleared, concVars, travVars>>

invokeCallbacksUntilOneOfThemReturnsANonEmptyContainer ==
    /\ R = "container"
    /\ LET out == NonEmptyLoop(m_callbacks, 1, DefaultConstructed, <<>>)
       IN  /\ ret' \in Outcome(out.threw, {out.ret})
           /\ threw' = out.threw
           /\ log' = out.log
    /\ call' = [op |-> "invokeCallbacksUntilOneOfThemReturnsANonEmptyContainer",
                arg |-> "none"]
    /\ UNCHANGED <<R, m_callbacks, m_lastAssignedCallback_ID, issued, stale,
                   cleared, concVars, travVars>>

\* The caller tags the callable of its n-th registration with n.
Register ==
    /\ Len(issued) < MaxRegistrations
    /\ Len(m_callbacks) < MaxCallbacks
    /\ \E callback \in Callables(R, Len(issued) + 1) : register_callback(callback)
    /\ UNCHANGED <<stale, travVars>>

Deregister ==
    /\ \E callbackID \in IntRange : deregister_callback(callbackID)
    /\ UNCHANGED <<stale, travVars>>

DeregisterAll ==
    /\ deregister_all_callbacks
    /\ UNCHANGED <<stale, travVars>>

Next ==
    \/ Register
    \/ Deregister
    \/ DeregisterAll
    \/ invokeCallbacks
    \/ CallOperator
    \/ invokeCallbacksUntilOneOfThemReturnsANonZeroValue
    \/ invokeCallbacksUntilOneOfThemReturnsANonEmptyContainer

Spec == Init /\ [][Next]_vars

(***************************************************************************)
(* One thread, many registrations: SpecWrap.  The registry is one whose    *)
(* counter started at zero (static storage, or a build in which            *)
(* std::atomic's default constructor value-initialises), and stale         *)
(* records the ids deregister_callback removed.                            *)
(***************************************************************************)
InitZeroed ==
    /\ Init
    /\ m_lastAssignedCallback_ID = 0

RegisterWrap ==
    /\ Len(issued) < WrapRegistrations
    /\ Len(m_callbacks) < MaxCallbacks
    /\ \E callback \in Callables(R, Len(issued) + 1) : register_callback(callback)
    /\ UNCHANGED <<stale, travVars>>

DeregisterWrap ==
    \E callbackID \in IntRange :
        /\ deregister_callback(callbackID)
        /\ stale' = IF ret' THEN stale \cup {callbackID} ELSE stale
        /\ UNCHANGED travVars

NextWrap ==
    \/ RegisterWrap
    \/ DeregisterWrap
    \/ DeregisterAll

SpecWrap == InitZeroed /\ [][NextWrap]_vars

(***************************************************************************)
(* NThreads threads in register_callback: SpecConc.                        *)
(*                                                                         *)
(* The increment of the std::atomic<int> is one step.  push_back on the    *)
(* shared std::vector is not synchronised: a thread reads the end of the   *)
(* vector, then constructs the entry there and stores the new end, and     *)
(* another thread may run between the two.  The buffer is taken to have    *)
(* room for every entry (no reallocation): what the race does here is      *)
(* overwrite an entry and move the end.                                    *)
(***************************************************************************)
\* the callable thread t registers in its n-th call
ThreadCallable(t, n) ==
    [tag |-> (t - 1) * CallsPerThread + n, ret |-> "void", throws |-> FALSE]

\* A registry of void callables whose counter started at zero or holds
\* INT_MAX, so that the first increment wraps.
InitConc ==
    /\ Init
    /\ R = "void"
    /\ m_lastAssignedCallback_ID \in {0, IntMax}

\* newCallback.m_id = (++m_lastAssignedCallback_ID);
\* (as changed: a plain int, loaded in one step and stored in the next)
PlainIncrement(t) ==
    \/ /\ pc[t] = "idle"
       /\ Len(done[t]) < CallsPerThread
       /\ newCallback' = [newCallback EXCEPT ![t] = m_lastAssignedCallback_ID]
       /\ pc' = [pc EXCEPT ![t] = "store"]
       /\ UNCHANGED <<R, m_callbacks, m_lastAssignedCallback_ID, call, ret, log,
                      issued, stale, cleared, slot, storage, done, threw, travVars>>
    \/ /\ pc[t] = "store"
       /\ m_lastAssignedCallback_ID' = PreIncrement(newCallback[t])
       /\ newCallback' = [newCallback EXCEPT ![t] = m_lastAssignedCallback_ID']
       /\ pc' = [pc EXCEPT ![t] = "push_back"]
       /\ UNCHANGED <<R, m_callbacks, call, ret, log, issued, stale, cleared,
                      slot, storage, done, threw, travVars>>

AtomicIncrement(t) ==
    /\ pc[t] = "idle"
    /\ Len(done[t]) < CallsPerThread
    /\ m_lastAssignedCallback_ID' = PreIncrement(m_lastAssignedCallback_ID)
    /\ newCallback' = [newCallback EXCEPT ![t] = m_lastAssignedCallback_ID']
    /\ pc' = [pc EXCEPT ![t] = "push_back"]
    /\ UNCHANGED <<R, m_callbacks, call, ret, log, issued, stale, cleared,
                   slot, storage, done, threw, travVars>>

\* the buffer with entry e constructed at position p, which is at most one
\* past what has been written
ConstructAt(buf, p, e) ==
    [k \in 1..(IF p > Len(buf) THEN p ELSE Len(buf)) |-> IF k = p THEN e ELSE buf[k]]

\* m_callbacks.push_back(newCallback): read the end of the vector
PushBackReadEnd(t) ==
    /\ pc[t] = "push_back"
    /\ slot' = [slot EXCEPT ![t] = Len(m_callbacks)]
    /\ pc' = [pc EXCEPT ![t] = "construct"]
    /\ UNCHANGED <<R, m_callbacks, m_lastAssignedCallback_ID, call, ret, log,
                   issued, stale, cleared, newCallback, storage, done, threw, travVars>>

\* m_callbacks.push_back(newCallback): construct the entry at the end that
\* was read and store the end after it
PushBackConstruct(t) ==
    /\ pc[t] = "construct"
    /\ storage' = ConstructAt(storage, slot[t] + 1,
                              NewCallback(newCallback[t],
                                          ThreadCallable(t, Len(done[t]) + 1)))
    /\ m_callbacks' = SubSeq(storage', 1, slot[t] + 1)
    /\ pc' = [pc EXCEPT ![t] = "return"]
    /\ UNCHANGED <<R, m_lastAssignedCallback_ID, call, ret, log, issued, stale,
                   cleared, newCallback, slot, done, threw, travVars>>

\* return newCallback.m_id;
ReturnId(t) ==
    /\ pc[t] = "return"
    /\ done' = [done EXCEPT ![t] = Append(done[t], newCallback[t])]
    /\ pc' = [pc EXCEPT ![t] = "idle"]
    /\ UNCHANGED <<R, m_callbacks, m_lastAssignedCallback_ID, call, ret, log,
                   issued, stale, cleared, newCallback, slot, storage, threw, travVars>>

NextConc ==
    \E t \in Threads :
        \/ AtomicIncrement(t)
        \/ PushBackReadEnd(t)
        \/ PushBackConstruct(t)
        \/ ReturnId(t)

SpecConc == InitConc /\ [][NextConc]_vars

(***************************************************************************)
(* One thread, callables that may throw: SpecThrow.                        *)
(***************************************************************************)
\* The caller registers a callable that returns or one that throws.
RegisterThrowing ==
    /\ Len(issued) < MaxRegistrations
    /\ Len(m_callbacks) < MaxCallbacks
    /\ \E callback \in Callables(R, Len(issued) + 1)
                           \cup ThrowingCallables(R, Len(issued) + 1) :
           register_callback(callback)
    /\ UNCHANGED <<stale, travVars>>

NextThrow ==
    \/ RegisterThrowing
    \/ Deregister
    \/ DeregisterAll
    \/ invokeCallbacks
    \/ CallOperator
    \/ invokeCallbacksUntilOneOfThemReturnsANonZeroValue
    \/ invokeCallbacksUntilOneOfThemReturnsANonEmptyContainer

SpecThrow == InitZeroed /\ [][NextThrow]_vars

(***************************************************************************)
(* invokeCallbacks in steps: SpecTraverse.                                 *)
(*                                                                         *)
(* for(const auto& callback : m_callbacks) takes m_callbacks.begin() and   *)
(* m_callbacks.end() once, before the first entry is called, and compares  *)
(* the iterator with that end after every call.  register_callback and     *)
(* deregister_callback, called by a callback of the traversal or by        *)
(* another thread between two of its steps, change the vector under the    *)
(* two iterators: erase moves the entries after the erased one down and    *)
(* destroys the last, push_back constructs at the end when the capacity    *)
(* allows and otherwise moves the entries to a new buffer and frees the    *)
(* old one.  Calling through an iterator to a destroyed entry is undefined *)
(* behaviour: the bytes of the entry may still be there and be called, or  *)
(* the program crashes.                                                    *)
(***************************************************************************)
\* a slot of the buffer that holds no entry yet
Raw == [entry |-> "raw", alive |-> FALSE]

\* The buffer old once the vector in it holds the entries v: the slots
\* after the end keep the bytes of what was destroyed there.
Buffer(v, old) ==
    [k \in DOMAIN old |-> IF k <= Len(v) THEN [entry |-> v[k], alive |-> TRUE]
                          ELSE [entry |-> old[k].entry, alive |-> FALSE]]

\* a new buffer of capacity c that holds the entries v
Allocate(v, c) ==
    [k \in 1..c |-> IF k <= Len(v) THEN [entry |-> v[k], alive |-> TRUE] ELSE Raw]

\* the buffer old after its entries were destroyed and it was freed
Freed(old) == [k \in DOMAIN old |-> [entry |-> old[k].entry, alive |-> FALSE]]

\* The calls made so far during the traversal, with a call of op: each with
\* the number of entries the traversal had called when it was made.
During(op) == IF tpc = "loop" THEN during \cup {<<op, Len(visited)>>} ELSE during

\* register_callback, before the traversal or between two of its steps
TraverseRegister ==
    /\ tpc \in {"idle", "loop"}
    /\ Len(issued) < MaxRegistrations
    /\ \E callback \in Callables(R, Len(issued) + 1) : register_callback(callback)
    /\ \/ /\ dangling
          /\ UNCHANGED <<slots, dangling>>
       \/ /\ ~dangling
          /\ Len(m_callbacks) < Len(slots)
          /\ slots' = Buffer(m_callbacks', slots)
          /\ UNCHANGED dangling
       \/ /\ ~dangling
          /\ Len(m_callbacks) = Len(slots)
          /\ IF tpc = "loop"
             THEN /\ slots' = Freed(slots)
                  /\ dangling' = TRUE
             ELSE /\ \E c \in (Len(m_callbacks) + 1)..MaxRegistrations :
                        slots' = Allocate(m_callbacks', c)
                  /\ UNCHANGED dangling
    /\ during' = During("register_callback")
    /\ UNCHANGED <<stale, tpc, it, itEnd, began, pastEnd, visited>>

\* deregister_callback, before the traversal or between two of its steps
TraverseDeregister ==
    /\ tpc \in {"idle", "loop"}
    /\ \E callbackID \in IntRange : deregister_callback(callbackID)
    /\ slots' = IF dangling THEN slots ELSE Buffer(m_callbacks', slots)
    /\ during' = IF ret' THEN During("deregister_callback") ELSE during
    /\ UNCHANGED <<stale, tpc, it, itEnd, dangling, began, pastEnd, visited>>

\* for(const auto& callback : m_callbacks): begin() and end() are taken
TraverseBegin ==
    /\ tpc = "idle"
    /\ tpc' = "loop"
    /\ it' = 1
    /\ itEnd' = Len(m_callbacks) + 1
    /\ began' = [k \in DOMAIN m_callbacks |-> CallbackTag(m_callbacks[k])]
    /\ visited' = <<>>
    /\ call' = [op |-> "invokeCallbacks", arg |-> "none"]
    /\ UNCHANGED <<R, m_callbacks, m_lastAssignedCallback_ID, ret, log, issued,
                   stale, cleared, concVars, threw, slots, dangling, pastEnd, during>>

\* (as changed: the iterator is compared with the vector's end of the moment)
AtCurrentEnd(i, e, v) == i > Len(v)

\* the range-for's test: the iterator has reached the end that was taken
AtEnd(i, e, v) == i = e

\* callback(arguments...); and the increment of the iterator
TraverseCall ==
    /\ tpc = "loop"
    /\ ~AtEnd(it, itEnd, m_callbacks)
    /\ pastEnd' = (pastEnd \/ (~dangling /\ it > Len(m_callbacks)))
    /\ IF it \in DOMAIN slots /\ slots[it].alive
       THEN /\ visited' = Append(visited, CallbackTag(slots[it].entry))
            /\ UNCHANGED tpc
       ELSE \/ /\ it \in DOMAIN slots
               /\ visited' = Append(visited, CallbackTag(slots[it].entry))
               /\ UNCHANGED tpc
            \/ /\ tpc' = "crashed"
               /\ UNCHANGED visited
    /\ it' = it + 1
    /\ UNCHANGED <<R, m_callbacks, m_lastAssignedCallback_ID, call, ret, log, issued,
                   stale, cleared, concVars, threw, itEnd, slots, dangling, began,
                   during>>

\* the iterator has reached the end: invokeCallbacks returns
TraverseReturn ==
    /\ tpc = "loop"
    /\ AtEnd(it, itEnd, m_callbacks)
    /\ tpc' = "returned"
    /\ ret' \in FlowOffEnd(R)
    /\ UNCHANGED <<R, m_callbacks, m_lastAssignedCallback_ID, call, log, issued,
                   stale, cleared, concVars, threw, it, itEnd, slots, dangling,
                   began, pastEnd, during, visited>>

\* a registry of void callables whose counter started at zero
InitTraverse ==
    /\ InitZeroed
    /\ R = "void"

NextTraverse ==
    \/ TraverseRegister
    \/ TraverseDeregister
    \/ TraverseBegin
    \/ TraverseCall
    \/ TraverseReturn

SpecTraverse == InitTraverse /\ [][NextTraverse]_vars

(***************************************************************************)
(* Properties.                                                             *)
(***************************************************************************)
\* the ids register_callback has returned
Returned == {issued[k] : k \in DOMAIN issued}

\* the ids of the entries stored
StoredIds == {m_callbacks[k].m_id : k \in DOMAIN m_callbacks}

InvokeAllOps == {"invokeCallbacks", "operator()"}

\* C1: every id register_callback returns differs from every id it returned
\* earlier on the registry, deregistered or not, and none is 0.
C1_IdsUniqueAndNonZero ==
    \A i, j \in DOMAIN issued :
        /\ issued[i] # 0
        /\ i # j => issued[i] # issued[j]

\* C2: the first register_callback on a freshly constructed registry returns
\* 1 and every later one returns the id returned before it plus 1.
C2_FirstIdIsOneThenPlusOne ==
    \A k \in DOMAIN issued :
        issued[k] = IF k = 1 THEN 1 ELSE issued[k - 1] + 1

\* C3: deregister_callback(id) of an id that is registered returns true, and
\* once it has returned true every later deregister_callback(id) returns
\* false, whatever was registered or deregistered in between.
C3_StaleIdIsRejected ==
    [][\A id \in IntRange :
          (call'.op = "deregister_callback" /\ call'.arg = id) =>
              /\ id \in StoredIds => ret' = TRUE
              /\ id \in stale => ret' = FALSE]_vars

\* C4: deregister_callback(id) of an id register_callback never returned on
\* the registry (0 and negative values too) returns false and leaves the
\* entries and the id counter as they were.
C4_UnknownIdIsNoOp ==
    [][\A id \in IntRange :
          (call'.op = "deregister_callback" /\ call'.arg = id /\ id \notin Returned) =>
              /\ ret' = FALSE
              /\ m_callbacks' = m_callbacks
              /\ m_lastAssignedCallback_ID' = m_lastAssignedCallback_ID]_vars

\* a deregister_callback of an id never returned, not positive, on a registry
\* that holds entries, has returned false
C4_Witness ==
    /\ call.op = "deregister_callback"
    /\ call.arg \notin Returned
    /\ call.arg <= 0
    /\ Len(m_callbacks) = MaxCallbacks
    /\ ret = FALSE

\* the tags of the entries stored, in the order of the vector
StoredTags == [k \in DOMAIN m_callbacks |-> CallbackTag(m_callbacks[k])]

\* the tags are those of the entries stored, each once
CallsEachEntryOnce(lg) ==
    /\ Len(lg) = Len(m_callbacks)
    /\ {lg[k] : k \in DOMAIN lg} = {StoredTags[k] : k \in DOMAIN m_callbacks}

\* the n-th registration's callable has tag n: ascending tags are the order
\* of registration
InRegistrationOrder(lg) == \A i, j \in DOMAIN lg : i < j => lg[i] < lg[j]

\* C5: invokeCallbacks and operator() call every entry that is registered
\* exactly once, in the order in which the entries were registered, whatever
\* was registered and deregistered before.
C5_InvokeAllInRegistrationOrder ==
    call.op \in InvokeAllOps =>
        /\ CallsEachEntryOnce(log)
        /\ InRegistrationOrder(log)

\* an invoke-all after the first entry was deregistered and a third registered
C5_Witness ==
    /\ call.op \in InvokeAllOps
    /\ log = <<2, 3>>

\* positions of the entries whose callable returns true
TruePositions == {k \in DOMAIN m_callbacks : CallbackCall(m_callbacks[k]) = TRUE}

\* positions of the entries whose callable returns a non-empty container
NonEmptyPositions == {k \in DOMAIN m_callbacks : ~empty(CallbackCall(m_callbacks[k]))}

Least(S) == CHOOSE k \in S : \A l \in S : k <= l

\* C6: invoke-until-true returns true exactly when some entry returns true;
\* it calls the entries in registration order up to and including the first
\* that returns true and none after it, and all of them when none does.
C6_UntilNonZero ==
    call.op = "invokeCallbacksUntilOneOfThemReturnsANonZeroValue" =>
        /\ ret = (TruePositions # {})
        /\ InRegistrationOrder(log)
        /\ log = SubSeq(StoredTags, 1, IF TruePositions # {} THEN Least(TruePositions)
                                       ELSE Len(m_callbacks))

\* the first of two entries returned true and the second was not called
C6_Witness ==
    /\ call.op = "invokeCallbacksUntilOneOfThemReturnsANonZeroValue"
    /\ ret = TRUE
    /\ Len(m_callbacks) = 2
    /\ Len(log) = 1

\* C7: invoke-until-non-empty returns the result of the first entry, in
\* registration order, whose result is non-empty; the entries before it and
\* that entry are called once each and no entry after it is called.
C7_UntilNonEmptyFirstMatch ==
    (call.op = "invokeCallbacksUntilOneOfThemReturnsANonEmptyContainer"
        /\ NonEmptyPositions # {}) =>
        /\ ret = CallbackCall(m_callbacks[Least(NonEmptyPositions)])
        /\ InRegistrationOrder(log)
        /\ log = SubSeq(StoredTags, 1, Least(NonEmptyPositions))

\* two entries with different non-empty results: the first one's is returned
\* and the second is not called
C7_Witness ==
    /\ call.op = "invokeCallbacksUntilOneOfThemReturnsANonEmptyContainer"
    /\ Cardinality(NonEmptyPositions) = 2
    /\ CallbackCall(m_callbacks[1]) # CallbackCall(m_callbacks[2])
    /\ ret = CallbackCall(m_callbacks[1])
    /\ Len(log) = 1

\* C8 as claimed: with no entry registered, or every entry returning an empty
\* result, invoke-until-non-empty returns the default-constructed value.
C8_ReturnsDefaultConstructed ==
    (call.op = "invokeCallbacksUntilOneOfThemReturnsANonEmptyContainer"
        /\ NonEmptyPositions = {}) =>
        ret = DefaultConstructed

\* C8 as amended: with no entry registered, invoke-until-non-empty returns the
\* default-constructed value; with entries that all return an empty result,
\* it returns the result of the last entry, which is empty.
C8_ReturnsLastEmptyResult ==
    (call.op = "invokeCallbacksUntilOneOfThemReturnsANonEmptyContainer"
        /\ NonEmptyPositions = {}) =>
        /\ empty(ret)
        /\ log = StoredTags
        /\ ret = IF m_callbacks = <<>> THEN DefaultConstructed
                 ELSE CallbackCall(m_callbacks[Len(m_callbacks)])

\* two entries returned empty results, the last of them not the
\* default-constructed value
C8_Witness ==
    /\ call.op = "invokeCallbacksUntilOneOfThemReturnsANonEmptyContainer"
    /\ Len(m_callbacks) = 2
    /\ NonEmptyPositions = {}
    /\ CallbackCall(m_callbacks[1]) = DefaultConstructed
    /\ ret # DefaultConstructed

InvokeOps == InvokeAllOps \cup {"invokeCallbacksUntilOneOfThemReturnsANonZeroValue",
                                "invokeCallbacksUntilOneOfThemReturnsANonEmptyContainer"}

\* C9: between deregister_all_callbacks and the next register_callback an
\* invocation calls no callable, invoke-until-true returns false,
\* invoke-until-non-empty returns the default-constructed value, and every
\* deregister_callback returns false.
C9_NothingAfterDeregisterAll ==
    cleared =>
        /\ call.op \in InvokeOps => log = <<>>
        /\ call.op = "invokeCallbacksUntilOneOfThemReturnsANonZeroValue" => ret = FALSE
        /\ call.op = "invokeCallbacksUntilOneOfThemReturnsANonEmptyContainer" =>
               ret = DefaultConstructed
        /\ call.op = "deregister_callback" => ret = FALSE

\* an invocation after deregister_all_callbacks removed two entries
C9_Witness ==
    /\ cleared
    /\ Len(issued) >= 2
    /\ call.op = "invokeCallbacksUntilOneOfThemReturnsANonEmptyContainer"

\* the ids the threads' calls have returned, each with the call it came from
ReturnedCalls == {<<t, k>> : t \in Threads, k \in 1..CallsPerThread}

AllCallsReturned ==
    \A t \in Threads : pc[t] = "idle" /\ Len(done[t]) = CallsPerThread

\* C11: when NThreads threads have made CallsPerThread register_callback
\* calls each, the vector holds NThreads * CallsPerThread entries with as
\* many distinct ids.
C11_AllConcurrentEntriesStored ==
    AllCallsReturned =>
        /\ Len(m_callbacks) = NThreads * CallsPerThread
        /\ Cardinality(StoredIds) = NThreads * CallsPerThread

\* C12: the entries stored have pairwise distinct ids.
C12_StoredIdsDistinct ==
    \A i, j \in DOMAIN m_callbacks :
        i # j => m_callbacks[i].m_id # m_callbacks[j].m_id

\* the sequence v without the element at position i
Without(v, i) == [k \in 1..(Len(v) - 1) |-> IF k < i THEN v[k] ELSE v[k + 1]]

C16_InvocationLeavesRegistryUnchanged ==
    [][call'.op \in InvokeOps =>
          /\ m_callbacks' = m_callbacks
          /\ m_lastAssignedCallback_ID' = m_lastAssignedCallback_ID
          /\ (\/ call.op = call'.op
              \/ call.op \in InvokeAllOps /\ call'.op \in InvokeAllOps) => log' = log]_vars

\* invokeCallbacks has called every one of MaxCallbacks entries, which are
\* still stored
C16_Witness ==
    /\ call.op = "invokeCallbacks"
    /\ Len(m_callbacks) = MaxCallbacks
    /\ log = StoredTags
    /\ R = "bool"

\* C18: ids increase strictly with the position in the vector and none
\* exceeds the last assigned id.
C18_IdsAscendAlongSequence ==
    /\ \A i, j \in DOMAIN m_callbacks :
          i < j => m_callbacks[i].m_id < m_callbacks[j].m_id
    /\ \A i \in DOMAIN m_callbacks :
          m_callbacks[i].m_id <= m_lastAssignedCallback_ID

C20_InvokeAllDoesNotShortCircuit ==
    /\ (call.op \in InvokeAllOps /\ R \in {"bool", "container"}) => log = StoredTags
    /\ (call.op = "invokeCallbacksUntilOneOfThemReturnsANonZeroValue"
            /\ TruePositions # {}) => Len(log) = Least(TruePositions)
    /\ (call.op = "invokeCallbacksUntilOneOfThemReturnsANonEmptyContainer"
            /\ NonEmptyPositions # {}) => Len(log) = Least(NonEmptyPositions)

\* operator() has called the second entry although the first returns true
C20_Witness ==
    /\ call.op = "operator()"
    /\ R = "bool"
    /\ Len(m_callbacks) = 2
    /\ CallbackCall(m_callbacks[1]) = TRUE
    /\ Len(log) = 2

\* positions of the entries whose callable throws
ThrowPositions == {k \in DOMAIN m_callbacks : CallbackThrows(m_callbacks[k])}

\* positions of the entries whose tag is in lg
CalledPositions(lg) ==
    {k \in DOMAIN m_callbacks : \E n \in DOMAIN lg : lg[n] = CallbackTag(m_callbacks[k])}

\* C14: when a callable throws during an invocation, the exception leaves
\* the invocation, no entry after the one that threw is called, and the
\* entries and the counter are as before the invocation.
C14_ExceptionPassesThrough ==
    [][call'.op \in InvokeOps =>
          LET failed == ThrowPositions \cap CalledPositions(log')
          IN  /\ (call'.op \in InvokeAllOps /\ ThrowPositions # {}) => failed # {}
              /\ failed # {} =>
                    /\ threw'
                    /\ log' = SubSeq(StoredTags, 1, Least(failed))
                    /\ m_callbacks' = m_callbacks
                    /\ m_lastAssignedCallback_ID' = m_lastAssignedCallback_ID]_vars

\* invokeCallbacks was left by the exception of the first of two entries
C14_Witness ==
    /\ call.op = "invokeCallbacks"
    /\ threw
    /\ Len(m_callbacks) = 2
    /\ CallbackThrows(m_callbacks[1])
    /\ log = <<CallbackTag(m_callbacks[1])>>

\* the traversal in flight has ended
TraversalEnded == tpc \in {"returned", "crashed"}

\* C15: an invocation during which a callback registers an entry does not
\* call that entry, and still calls each entry stored when it began once, in
\* order.
C15_RegisteredDuringIsNotCalled ==
    (/\ TraversalEnded
     /\ during # {}
     /\ \A d \in during : d[1] = "register_callback" /\ d[2] >= 1) =>
        /\ tpc = "returned"
        /\ visited = began

\* tags of the entries stored when the traversal began that are still stored
\* and that the traversal did not call
Skipped ==
    ({began[k] : k \in DOMAIN began} \cap {StoredTags[k] : k \in DOMAIN StoredTags})
        \ {visited[n] : n \in DOMAIN visited}

\* C17: a deregister_callback that removes an entry while an invokeCallbacks
\* traversal is in progress, before the traversal has made its last call,
\* makes the traversal skip an entry that stayed registered or read a
\* position past the end of the vector.
C17_DeregisterDuringTraversal ==
    (/\ TraversalEnded
     /\ \A d \in during : d[1] = "deregister_callback"
     /\ \E d \in during : d[2] < Len(began)) =>
        (Skipped # {} \/ pastEnd)

\* a traversal of three entries during which the first was deregistered has
\* returned: it has skipped the second, which is still stored, and has read
\* the third position of a vector of two
C17_Witness ==
    /\ tpc = "returned"
    /\ during = {<<"deregister_callback", 1>>}
    /\ Len(began) = 3
    /\ began[2] \in Skipped
    /\ pastEnd

=============================================================================
